---- MODULE Spec2Model ----
(***************************************************************************)
(* nInstaller (src/src/ninstaller.js): reads a remote manifest, compares   *)
(* it with the manifest stored in the local WebSQL database, downloads the *)
(* resources that changed and stores them.                                 *)
(*                                                                         *)
(* JavaScript values are represented as follows.                           *)
(*   null / undefined object   the empty sequence <<>>  (None)             *)
(*   a present object x        the one-element sequence <<x>> (Some(x))    *)
(*   an absent string property the string "undefined"                      *)
(*   an array                  a sequence                                  *)
(*   an object reference       a record naming the owning manifest object, *)
(*                             the array property and the index            *)
(***************************************************************************)
EXTENDS Integers, Sequences, FiniteSets, TLC

\* ------------------------------------------------------------------ bounds

\* Largest number of resources listed by one manifest.
MaxLen == 2

\* ------------------------------------------------------------------ values

None == <<>>
Some(x) == <<x>>
Undefined == "undefined"

Paths == {"a.js", "b.js", "c.js"}
Md5s == {"h1", "h2"}
Times == {"t1"}

\* A resource entry of a manifest as JSON.parse yields it: no content property.
Descriptors == [path : Paths, md5 : Md5s, time : Times, content : {Undefined}]

RECURSIVE SeqsUpTo(_, _)
SeqsUpTo(S, n) ==
  IF n = 0 THEN {<<>>}
  ELSE LET shorter == SeqsUpTo(S, n - 1)
       IN shorter \cup {Append(s, x) : s \in {t \in shorter : Len(t) = n - 1}, x \in S}

UniquePaths(s) == \A i, j \in 1..Len(s) : s[i].path = s[j].path => i = j

\* The resource lists a manifest may carry: ordered, unique by path.
ResourceLists == {s \in SeqsUpTo(Descriptors, MaxLen) : UniquePaths(s)}

\* A manifest object {js: {resources: [...]}}.  The property js.resouces is
\* read by the source (line 138); a manifest of the documented format does
\* not have it (None); a manifest that carries its list under both spellings
\* has it.
Manifest(resources, resouces) ==
  [js |-> [resources |-> resources, resouces |-> resouces]]

Manifests == {Manifest(s, None) : s \in ResourceLists}
ManifestsBothSpellings == {Manifest(s, Some(s)) : s \in ResourceLists}

\* ------------------------------------------------------------- arrayToMap

\* arrayToMap(array, 'path'): result[val.path] = val for each element in
\* order, a later element replacing an earlier one with the same path.
\* The map is a function from the paths present to the element.
RECURSIVE arrayToMap(_)
arrayToMap(array) ==
  IF array = <<>> THEN <<>>
  ELSE LET n == Len(array)
           front == arrayToMap(SubSeq(array, 1, n - 1))
           val == array[n]
       IN [p \in (DOMAIN front) \cup {val.path} |->
             IF p = val.path THEN val ELSE front[p]]

\* ------------------------------------------------------- _calcNewResource

\* The result of a call: either it returns an array of references to
\* entries of the new manifest, or it throws a TypeError.
Returned(refs) == [threw |-> FALSE, resources |-> refs]
TypeError == [threw |-> TRUE, resources |-> <<>>]

Ref(arr, idx) == [arr |-> arr, idx |-> idx]

\* The loop of lines 139..145 from index i on, acc the array built so far.
RECURSIVE CalcLoop(_, _, _, _)
CalcLoop(newResources, currentResourcesMap, i, acc) ==
  IF i > Len(newResources) THEN Returned(acc)
  ELSE LET newResource == newResources[i]
       IN IF newResource.path \notin DOMAIN currentResourcesMap
          THEN TypeError      \* currentResource is undefined: .md5 throws
          ELSE IF newResource.md5 # currentResourcesMap[newResource.path].md5
               THEN CalcLoop(newResources, currentResourcesMap, i + 1,
                             Append(acc, Ref("resouces", i)))
               ELSE CalcLoop(newResources, currentResourcesMap, i + 1, acc)

\* A plausible slip: the test of line 133 inverted.
_calcNewResource_inverted(newManifest, currentManifest) ==
  IF currentManifest # None
  THEN Returned([i \in 1..Len(newManifest.js.resources) |-> Ref("resources", i)])
  ELSE TypeError

\* _calcNewResource with this._newManifest and this._currentManifest given.
\* currentManifest is None for null.
_calcNewResource(newManifest, currentManifest) ==
  IF currentManifest = None
  THEN \* [].concat(newManifest.js.resources): a new array, the same objects
       Returned([i \in 1..Len(newManifest.js.resources) |-> Ref("resources", i)])
  ELSE LET currentResourcesMap == arrayToMap(currentManifest[1].js.resources)
           newResources == newManifest.js.resouces
       IN IF newResources = None
          THEN TypeError      \* newResources is undefined: .length throws
          ELSE CalcLoop(newResources[1], currentResourcesMap, 1, <<>>)

\* The object a reference of the diff denotes inside manifest object m.
Deref(m, ref) ==
  IF ref.arr = "resources" THEN m.js.resources[ref.idx]
  ELSE m.js.resouces[1][ref.idx]

\* The descriptors an array of references denotes.
Values(m, refs) == [k \in 1..Len(refs) |-> Deref(m, refs[k])]

\* ------------------------------------------------------------ environment

\* The runs (calls of nInstaller.init) a behaviour may contain.
MaxRuns == 2
Runs == 1..MaxRuns

Urls == {"manifest.json"}

\* What a server can answer to the manifest request: the JSON text of a
\* manifest, or a body that is no JSON (a truncated document, an error page).
JsonText(m) == [kind |-> "json", doc |-> m]
NotJson == [kind |-> "other", doc |-> Manifest(<<>>, None)]
NoText == [kind |-> "none", doc |-> Manifest(<<>>, None)]

\* JSON.parse: Some(object) or None when it throws a SyntaxError.
JSON_parse(text) == IF text.kind = "json" THEN Some(text.doc) ELSE None

Dt(p, h, t) == [path |-> p, md5 |-> h, time |-> t, content |-> Undefined]
D(p, h) == Dt(p, h, "t1")

\* The manifests the remote publishes in the sync runs.
RemoteManifests ==
  { Manifest(<<>>, None),
    Manifest(<<D("a.js", "h1")>>, None),
    Manifest(<<Dt("a.js", "h2", "t2"), D("b.js", "h1")>>, None) }

ManifestTexts == {JsonText(m) : m \in RemoteManifests} \cup {NotJson}

\* Bodies a server answers with status 200, and the body of an error answer.
Bodies == {"c1", "c2"}
ErrorBody == "404 Not Found"

\* A row of table js (path is the primary key and indexes the table).
Row(res) == [md5 |-> res.md5, time |-> res.time, content |-> res.content]

EmptyJs == [p \in Paths |-> None]

\* ------------------------------------------------------------------ state

VARIABLES
  manifestUrl,      \* nInstaller._manifestUrl ("null" or a url)
  newManifest,      \* nInstaller._newManifest: None or Some(o), o the object
  currentManifest,  \* nInstaller._currentManifest: None or Some(manifest)
  heap,             \* heap[o]: the object JSON.parse made in run o's onload
  dbManifest,       \* table manifest of database ninstaller: its rows
  dbJs,             \* table js: per path None or Some(row)
  pc,               \* per run: the callback the run waits for
  xhrUrl,           \* per run: the url of the manifest request
  responseText,     \* per run: xhr.responseText of the manifest request
  resources,        \* per run: the array _calcNewResource returned
  index,            \* per run: index of _fetchResources (0-based)
  txJs,             \* per run: the open transaction's view of table js
  txQueue,          \* per run: the statements queued and not yet executed
  calls,            \* per run: invocations of init's callback argument
  failedAt,         \* per run: the stage whose collaborator failed, or "none"
  trace,            \* per run: the stages entered, in order
  requests,         \* per run: the resource paths requested, in order
  received,         \* per run: the answers to those requests, in order
  wrote,            \* per run: the paths its committed transaction upserted
  dbAtStart,        \* per run: the database when init was called
  diff              \* a call of _calcNewResource on given manifests

vars == <<manifestUrl, newManifest, currentManifest, heap, dbManifest, dbJs,
          pc, xhrUrl, responseText, resources, index, txJs, txQueue, calls,
          failedAt, trace, requests, received, wrote, dbAtStart, diff>>

installerVars == <<manifestUrl, newManifest, currentManifest, heap>>
dbVars == <<dbManifest, dbJs>>
runVars == <<pc, xhrUrl, responseText, resources, index, txJs, txQueue, calls,
             failedAt, trace, requests, received, wrote, dbAtStart>>

DiffIdle == [pc |-> "idle", newManifest |-> Manifest(<<>>, None),
             currentManifest |-> None, result |-> Returned(<<>>)]

\* Lines 52..55, and a database whose table manifest holds `rows`.
InitWith(rows) ==
  /\ manifestUrl = "null"
  /\ newManifest = None
  /\ currentManifest = None
  /\ heap = [o \in Runs |-> None]
  /\ dbManifest = rows
  /\ dbJs = EmptyJs
  /\ pc = [r \in Runs |-> "idle"]
  /\ xhrUrl = [r \in Runs |-> "null"]
  /\ responseText = [r \in Runs |-> NoText]
  /\ resources = [r \in Runs |-> <<>>]
  /\ index = [r \in Runs |-> 0]
  /\ txJs = [r \in Runs |-> EmptyJs]
  /\ txQueue = [r \in Runs |-> <<>>]
  /\ calls = [r \in Runs |-> 0]
  /\ failedAt = [r \in Runs |-> "none"]
  /\ trace = [r \in Runs |-> <<>>]
  /\ requests = [r \in Runs |-> <<>>]
  /\ received = [r \in Runs |-> <<>>]
  /\ wrote = [r \in Runs |-> {}]
  /\ dbAtStart = [r \in Runs |-> [manifest |-> <<>>, js |-> EmptyJs]]

\* A database in which nothing has been stored yet.
InstallerInit == InitWith(<<>>)

Init == InstallerInit /\ diff = DiffIdle

\* ------------------------------------------------------------ CallbackSeq

\* init builds a CallbackSeq of six steps (lines 64..71).  seq.start() calls
\* the first step; the callback handed to an async step, and the return of a
\* sync step, call the next step at once, with the values passed on.


\* The steps init adds, in the order of lines 66..71.
Steps == <<"fetchNewManifest", "loadCurrentManifest", "calcNewResource",
           "fetchResources", "saveResources", "complete">>

\* The step CallbackSeq calls when step s has called back or returned.
StepAfter(s) == Steps[1 + CHOOSE k \in 1..Len(Steps) : Steps[k] = s]

\* The path of the request for the resource at index i (lines 169..177).
Requested(refs, o, i) == Deref(heap[o][1], refs[i + 1]).path

\* A plausible change (the TODO of line 162): every request sent at once.
FirstRequests_all(refs, o) == [k \in 1..Len(refs) |-> Requested(refs, o, k - 1)]

\* The requests _fetchResources has sent when it returns (lines 158..160
\* and the first fetch()): one, for the resource at index 0.
FirstRequests(refs, o) == <<Requested(refs, o, 0)>>

\* ------------------------------------------------------------------- init

\* nInstaller.init(manifestUrl, callback): lines 62..74, and the first step
\* _fetchNewManifest up to xhr.send() (lines 81..93).
init(r, url) ==
  /\ pc[r] = "idle"
  /\ manifestUrl' = url
  /\ xhrUrl' = [xhrUrl EXCEPT ![r] = url]
  /\ pc' = [pc EXCEPT ![r] = "fetchNewManifest"]
  /\ trace' = [trace EXCEPT ![r] = Append(@, "fetchNewManifest")]
  /\ dbAtStart' = [dbAtStart EXCEPT ![r] = [manifest |-> dbManifest, js |-> dbJs]]
  /\ UNCHANGED <<newManifest, currentManifest, heap, dbVars, responseText,
                 resources, index, txJs, txQueue, calls, failedAt, requests,
                 received, wrote, diff>>

\* ------------------------------------------------------ _fetchNewManifest

\* A plausible slip: callback() is reached although JSON.parse threw (the
\* exception caught and dropped), this._newManifest keeping its value.
fetchNewManifest_onload_lenient(r, text) ==
  /\ pc[r] = "fetchNewManifest"
  /\ responseText' = [responseText EXCEPT ![r] = text]
  /\ IF JSON_parse(text) = None
     THEN UNCHANGED <<newManifest, heap>>
     ELSE /\ heap' = [heap EXCEPT ![r] = JSON_parse(text)]
          /\ newManifest' = Some(r)
  /\ pc' = [pc EXCEPT ![r] = StepAfter("fetchNewManifest")]
  /\ trace' = [trace EXCEPT ![r] = Append(@, StepAfter("fetchNewManifest"))]
  /\ UNCHANGED <<manifestUrl, currentManifest, dbVars, xhrUrl, resources,
                 index, txJs, txQueue, calls, failedAt, requests, received,
                 wrote, dbAtStart, diff>>

\* xhr.onload of the manifest request (lines 86..90): any answer of the
\* server, whatever its status, fires it.  JSON.parse throws on a body that
\* is no JSON and the handler ends there; otherwise callback() starts
\* _loadCurrentManifest, which queues its transaction (lines 102..103).
fetchNewManifest_onload(r, text) ==
  /\ pc[r] = "fetchNewManifest"
  /\ responseText' = [responseText EXCEPT ![r] = text]
  /\ IF JSON_parse(text) = None
     THEN /\ pc' = [pc EXCEPT ![r] = "halted"]
          /\ failedAt' = [failedAt EXCEPT ![r] = "fetchNewManifest"]
          /\ UNCHANGED <<newManifest, heap, trace>>
     ELSE /\ heap' = [heap EXCEPT ![r] = JSON_parse(text)]
          /\ newManifest' = Some(r)
          /\ pc' = [pc EXCEPT ![r] = StepAfter("fetchNewManifest")]
          /\ trace' = [trace EXCEPT ![r] = Append(@, StepAfter("fetchNewManifest"))]
          /\ UNCHANGED failedAt
  /\ UNCHANGED <<manifestUrl, currentManifest, dbVars, xhrUrl, resources,
                 index, txJs, txQueue, calls, requests, received, wrote,
                 dbAtStart, diff>>

\* The manifest request fails in transport: the xhr fires error, for which
\* lines 83..93 register no handler.  Nothing of the run remains pending.
fetchNewManifest_error(r) ==
  /\ pc[r] = "fetchNewManifest"
  /\ pc' = [pc EXCEPT ![r] = "halted"]
  /\ failedAt' = [failedAt EXCEPT ![r] = "fetchNewManifest"]
  /\ UNCHANGED <<installerVars, dbVars, xhrUrl, responseText, resources,
                 index, txJs, txQueue, calls, trace, requests, received,
                 wrote, dbAtStart, diff>>

\* --------------------------------------------------- _loadCurrentManifest

\* A plausible slip: an exception of JSON.parse caught and taken for "no row".
SelectCurrent_swallow(rows, kept) ==
  IF Len(rows) < 1 \/ JSON_parse(rows[1]) = None
  THEN [threw |-> FALSE, value |-> kept]
  ELSE [threw |-> FALSE, value |-> JSON_parse(rows[1])]

\* The row the SELECT of line 108 yields, parsed as line 113 does:
\* [threw, value]; with no row this._currentManifest keeps its value.
SelectCurrent(rows, kept) ==
  IF Len(rows) < 1 THEN [threw |-> FALSE, value |-> kept]
  ELSE IF JSON_parse(rows[1]) = None THEN [threw |-> TRUE, value |-> kept]
  ELSE [threw |-> FALSE, value |-> JSON_parse(rows[1])]

\* The transaction of lines 106..117 and everything its callback() runs in
\* the same turn: _calcNewResource (lines 129..149), then _fetchResources up
\* to its first xhr.send() (lines 157..177) or, for an empty array, its
\* callback(resources), which starts _saveResources (lines 188..189).
\* An exception of JSON.parse or of _calcNewResource ends the handler.
loadCurrentManifest_transaction(r) ==
  /\ pc[r] = "loadCurrentManifest"
  /\ LET sel == SelectCurrent(dbManifest, currentManifest)
         calc == IF newManifest = None THEN TypeError
                 ELSE _calcNewResource(heap[newManifest[1]][1], sel.value)
         refs == [k \in 1..Len(calc.resources) |->
                    [obj |-> newManifest[1], arr |-> calc.resources[k].arr,
                     idx |-> calc.resources[k].idx]]
     IN IF sel.threw
        THEN /\ pc' = [pc EXCEPT ![r] = "halted"]
             /\ failedAt' = [failedAt EXCEPT ![r] = "loadCurrentManifest"]
             /\ UNCHANGED <<currentManifest, resources, index, trace, requests>>
        ELSE /\ currentManifest' = sel.value
             /\ IF calc.threw
                THEN /\ pc' = [pc EXCEPT ![r] = "halted"]
                     /\ failedAt' = [failedAt EXCEPT ![r] = "calcNewResource"]
                     /\ trace' = [trace EXCEPT ![r] = Append(@, "calcNewResource")]
                     /\ UNCHANGED <<resources, index, requests>>
                ELSE /\ resources' = [resources EXCEPT ![r] = refs]
                     /\ index' = [index EXCEPT ![r] = 0]
                     /\ UNCHANGED failedAt
                     /\ IF Len(refs) = 0
                        THEN /\ pc' = [pc EXCEPT ![r] = "saveResources"]
                             /\ trace' = [trace EXCEPT ![r] =
                                  @ \o <<"calcNewResource", "fetchResources",
                                         "saveResources">>]
                             /\ UNCHANGED requests
                        ELSE /\ pc' = [pc EXCEPT ![r] = "fetchResources"]
                             /\ trace' = [trace EXCEPT ![r] =
                                  @ \o <<"calcNewResource", "fetchResources">>]
                             /\ requests' = [requests EXCEPT ![r] =
                                  @ \o FirstRequests(refs, newManifest[1])]
  /\ UNCHANGED <<manifestUrl, newManifest, heap, dbVars, xhrUrl, responseText,
                 txJs, txQueue, calls, received, wrote, dbAtStart, diff>>

\* The transaction fails (the database cannot be opened or read): error(e)
\* of lines 119..121 logs and returns.
loadCurrentManifest_error(r) ==
  /\ pc[r] = "loadCurrentManifest"
  /\ pc' = [pc EXCEPT ![r] = "halted"]
  /\ failedAt' = [failedAt EXCEPT ![r] = "loadCurrentManifest"]
  /\ UNCHANGED <<installerVars, dbVars, xhrUrl, responseText, resources,
                 index, txJs, txQueue, calls, trace, requests, received,
                 wrote, dbAtStart, diff>>

\* -------------------------------------------------------- _fetchResources

\* What a server can answer to a resource request.  Both fire xhr.onload.
Answers == [status : {"200"}, body : Bodies] \cup [status : {"404"}, body : {ErrorBody}]

\* A plausible slip: the handler writes to resources[0] instead of res.
SetContent_first(m, ref, content) ==
  IF ref.arr = "resources"
  THEN [m EXCEPT !.js.resources[1].content = content]
  ELSE [m EXCEPT !.js.resouces[1][1].content = content]

\* res.content = content (line 172) on the object the reference denotes.
SetContent(m, ref, content) ==
  IF ref.arr = "resources"
  THEN [m EXCEPT !.js.resources[ref.idx].content = content]
  ELSE [m EXCEPT !.js.resouces[1][ref.idx].content = content]

\* xhr.onload of a resource request (lines 170..175) and the fetch() it
\* calls: the next xhr.send(), or callback(resources) after the last one,
\* which starts _saveResources (lines 188..189).  The status of the answer
\* is not read.
fetchResources_onload(r, answer) ==
  /\ pc[r] = "fetchResources"
  /\ LET res == resources[r][index[r] + 1]
     IN heap' = [heap EXCEPT ![res.obj] = Some(SetContent(@[1], res, answer.body))]
  /\ index' = [index EXCEPT ![r] = @ + 1]
  /\ received' = [received EXCEPT ![r] =
       Append(@, [path |-> requests[r][Len(requests[r])], body |-> answer.body])]
  /\ failedAt' = [failedAt EXCEPT ![r] =
       IF answer.status # "200" /\ @ = "none" THEN "fetchResources" ELSE @]
  /\ IF Len(resources[r]) = index[r] + 1
     THEN /\ pc' = [pc EXCEPT ![r] = StepAfter("fetchResources")]
          /\ trace' = [trace EXCEPT ![r] = Append(@, StepAfter("fetchResources"))]
          /\ UNCHANGED requests
     ELSE /\ requests' = [requests EXCEPT ![r] =
               Append(@, Deref(heap'[resources[r][index[r] + 2].obj][1],
                               resources[r][index[r] + 2]).path)]
          /\ UNCHANGED <<pc, trace>>
  /\ UNCHANGED <<manifestUrl, newManifest, currentManifest, dbVars, xhrUrl,
                 responseText, resources, txJs, txQueue, calls, wrote,
                 dbAtStart, diff>>

\* A resource request fails in transport: the xhr fires error, for which
\* lines 159..177 register no handler.  Nothing of the run remains pending.
fetchResources_error(r) ==
  /\ pc[r] = "fetchResources"
  /\ pc' = [pc EXCEPT ![r] = "halted"]
  /\ failedAt' = [failedAt EXCEPT ![r] = IF @ = "none" THEN "fetchResources" ELSE @]
  /\ UNCHANGED <<installerVars, dbVars, xhrUrl, responseText, resources,
                 index, txJs, txQueue, calls, trace, requests, received,
                 wrote, dbAtStart, diff>>

\* --------------------------------------------------------- _saveResources

\* The arguments of one INSERT OR REPLACE (line 195).
Statement(res) == [path |-> res.path, row |-> Row(res)]

\* A plausible slip: INSERT OR IGNORE, which keeps a row already stored.
InsertOrIgnore(js, stmt) ==
  IF js[stmt.path] # None THEN js ELSE [js EXCEPT ![stmt.path] = Some(stmt.row)]

\* INSERT OR REPLACE INTO js: the row of that primary key is the new row.
InsertOrReplace(js, stmt) == [js EXCEPT ![stmt.path] = Some(stmt.row)]

\* The database runs one read-write transaction at a time.
NoOpenTransaction == \A q \in Runs : pc[q] # "saveResources_tx"

\* A plausible slip: the loop of line 193 stops one resource early.
saveResources_transaction_short(r) ==
  /\ pc[r] = "saveResources"
  /\ NoOpenTransaction
  /\ txQueue' = [txQueue EXCEPT ![r] =
       [k \in 1..(Len(resources[r]) - 1) |->
          Statement(Deref(heap[resources[r][k].obj][1], resources[r][k]))]]
  /\ txJs' = [txJs EXCEPT ![r] = dbJs]
  /\ pc' = [pc EXCEPT ![r] = "saveResources_tx"]
  /\ UNCHANGED <<installerVars, dbVars, xhrUrl, responseText, resources,
                 index, calls, failedAt, trace, requests, received, wrote,
                 dbAtStart, diff>>

\* transaction(tr) of lines 191..197: queues one statement per resource,
\* with the values the resources have now.
saveResources_transaction(r) ==
  /\ pc[r] = "saveResources"
  /\ NoOpenTransaction
  /\ txQueue' = [txQueue EXCEPT ![r] =
       [k \in 1..Len(resources[r]) |->
          Statement(Deref(heap[resources[r][k].obj][1], resources[r][k]))]]
  /\ txJs' = [txJs EXCEPT ![r] = dbJs]
  /\ pc' = [pc EXCEPT ![r] = "saveResources_tx"]
  /\ UNCHANGED <<installerVars, dbVars, xhrUrl, responseText, resources,
                 index, calls, failedAt, trace, requests, received, wrote,
                 dbAtStart, diff>>

\* The database executes the next queued statement inside the transaction.
saveResources_executeSql(r) ==
  /\ pc[r] = "saveResources_tx"
  /\ txQueue[r] # <<>>
  /\ txJs' = [txJs EXCEPT ![r] = InsertOrReplace(@, Head(txQueue[r]))]
  /\ txQueue' = [txQueue EXCEPT ![r] = Tail(@)]
  /\ UNCHANGED <<installerVars, dbVars, pc, xhrUrl, responseText, resources,
                 index, calls, failedAt, trace, requests, received, wrote,
                 dbAtStart, diff>>

\* The transaction commits and success() runs (lines 203..205): callback()
\* starts the last step, _complete (lines 213..215), which calls the
\* callback given to init.
saveResources_success(r) ==
  /\ pc[r] = "saveResources_tx"
  /\ txQueue[r] = <<>>
  /\ dbJs' = txJs[r]
  /\ wrote' = [wrote EXCEPT ![r] =
       {Deref(heap[resources[r][k].obj][1], resources[r][k]).path :
          k \in 1..Len(resources[r])}]
  /\ calls' = [calls EXCEPT ![r] = @ + 1]
  /\ pc' = [pc EXCEPT ![r] = StepAfter("saveResources")]
  /\ trace' = [trace EXCEPT ![r] = Append(@, StepAfter("saveResources"))]
  /\ UNCHANGED <<installerVars, dbManifest, xhrUrl, responseText, resources,
                 index, txJs, txQueue, failedAt, requests, received,
                 dbAtStart, diff>>

\* The transaction fails before or while it runs: it is rolled back and
\* error(e) of lines 199..201 logs and returns.
saveResources_error(r) ==
  /\ pc[r] \in {"saveResources", "saveResources_tx"}
  /\ pc' = [pc EXCEPT ![r] = "halted"]
  /\ failedAt' = [failedAt EXCEPT ![r] = IF @ = "none" THEN "saveResources" ELSE @]
  /\ UNCHANGED <<installerVars, dbVars, xhrUrl, responseText, resources,
                 index, txJs, txQueue, calls, trace, requests, received,
                 wrote, dbAtStart, diff>>

\* ---------------------------------------------------------- specification

\* A run with no callback pending: not started, completed, or stopped.
Quiescent(r) == pc[r] \in {"idle", "complete", "halted"}

\* init is called for one run at a time, in order.
Serial(r) ==
  /\ \A q \in Runs : Quiescent(q)
  /\ \A q \in Runs : q < r => pc[q] # "idle"

\* The callbacks of run r that the browser may run next.
Callbacks(r) ==
    \/ \E text \in ManifestTexts : fetchNewManifest_onload(r, text)
    \/ fetchNewManifest_error(r)
    \/ loadCurrentManifest_transaction(r)
    \/ loadCurrentManifest_error(r)
    \/ \E answer \in Answers : fetchResources_onload(r, answer)
    \/ fetchResources_error(r)
    \/ saveResources_transaction(r)
    \/ saveResources_executeSql(r)
    \/ saveResources_success(r)
    \/ saveResources_error(r)

Next ==
  \E r \in Runs :
    \/ \E url \in Urls : Serial(r) /\ init(r, url)
    \/ Callbacks(r)

Spec == Init /\ [][Next]_vars

\* ------------------------------------- _calcNewResource on given manifests

DiffInputs ==
  [pc : {"call"},
   newManifest : Manifests \cup ManifestsBothSpellings,
   currentManifest : {None} \cup {Some(m) : m \in Manifests},
   result : {Returned(<<>>)}]

DiffInit == InstallerInit /\ diff \in DiffInputs

\* One call of _calcNewResource with the fields set to the given manifests.
DiffCall ==
  /\ diff.pc = "call"
  /\ diff' = [diff EXCEPT !.pc = "returned",
                          !.result = _calcNewResource(diff.newManifest,
                                                      diff.currentManifest)]
  /\ UNCHANGED <<installerVars, dbVars, runVars>>

DiffNext == DiffCall

SpecDiff == DiffInit /\ [][DiffNext]_vars

\* ------------------------------ one run on a database found with a record

\* What table manifest may hold when the page is opened: nothing, a record
\* that is no JSON, or the JSON text of a manifest.
StoredRows ==
  {<<>>, <<NotJson>>} \cup {<<JsonText(m)>> : m \in RemoteManifests}

StoredInit == diff = DiffIdle /\ \E rows \in StoredRows : InitWith(rows)

StoredNext ==
  \/ \E url \in Urls : init(1, url)
  \/ Callbacks(1)

SpecStored == StoredInit /\ [][StoredNext]_vars

\* ------------------------------------------------ overlapping calls of init

\* init may be called again while an earlier run has callbacks pending.
OverlapNext ==
  \E r \in Runs :
    \/ \E url \in Urls : init(r, url)
    \/ Callbacks(r)

SpecOverlap == Init /\ [][OverlapNext]_vars

\* ================================================================= claims

\* The manifest the next _loadCurrentManifest would leave in
\* this._currentManifest, given the database as it is.
StoredCurrent == SelectCurrent(dbManifest, currentManifest).value

\* Run r is the last run started so far.
LastRun(r) == pc[r] # "idle" /\ \A q \in Runs : q > r => pc[q] = "idle"

Entered(r, step) == \E k \in 1..Len(trace[r]) : trace[r][k] = step

\* The descriptors of the array run r hands from step to step.
RunResources(r) ==
  [k \in 1..Len(resources[r]) |->
     Deref(heap[resources[r][k].obj][1], resources[r][k])]

\* C1: once a run has completed, the manifest it fetched is the stored
\* current manifest, i.e. what the next _loadCurrentManifest yields.
C1_CompleteStoresManifest ==
  \A r \in Runs :
    (pc[r] = "complete" /\ LastRun(r)) =>
      StoredCurrent = JSON_parse(responseText[r])

DiffReturned == diff.pc = "returned"
DiffNew == diff.newManifest.js.resources
DiffOut == Values(diff.newManifest, diff.result.resources)
DiffCurrentPaths ==
  IF diff.currentManifest = None THEN {}
  ELSE {diff.currentManifest[1].js.resources[k].path :
          k \in 1..Len(diff.currentManifest[1].js.resources)}
InDiffOut(d) == \E k \in 1..Len(DiffOut) : DiffOut[k] = d

\* C2: every incoming descriptor whose path has no entry in the current
\* manifest is in the output of _calcNewResource, which does not throw.
C2_NewPathsAreChanged ==
  DiffReturned =>
    \A i \in 1..Len(DiffNew) :
      DiffNew[i].path \notin DiffCurrentPaths =>
        ~diff.result.threw /\ InDiffOut(DiffNew[i])

\* The md5 the current manifest records for path p.
CurrentMd5(p) == arrayToMap(diff.currentManifest[1].js.resources)[p].md5

\* C3: with a current manifest that has entries, an incoming descriptor whose
\* path the current manifest has is in the output iff its md5 differs, the
\* output keeps the incoming order, and identical manifests give no output.
C3_KnownPathsDiffByMd5 ==
  (DiffReturned /\ diff.currentManifest # None /\ DiffCurrentPaths # {}) =>
    /\ ~diff.result.threw
    /\ \A i \in 1..Len(DiffNew) :
         DiffNew[i].path \in DiffCurrentPaths =>
           (InDiffOut(DiffNew[i]) <=> DiffNew[i].md5 # CurrentMd5(DiffNew[i].path))
    /\ \A k, l \in 1..Len(diff.result.resources) :
         k < l => diff.result.resources[k].idx < diff.result.resources[l].idx
    /\ \A k \in 1..Len(DiffOut) : DiffOut[k] = DiffNew[diff.result.resources[k].idx]
    /\ (DiffNew = diff.currentManifest[1].js.resources => DiffOut = <<>>)

\* C4: with no current manifest _calcNewResource returns exactly the incoming
\* manifest's resources, all of them, in the same order.
C4_FirstRunReturnsAll ==
  (DiffReturned /\ diff.currentManifest = None) =>
    ~diff.result.threw /\ DiffOut = DiffNew

\* A first-run call on a manifest of two resources has returned both.
C4_Witness ==
  /\ DiffReturned
  /\ diff.currentManifest = None
  /\ Len(DiffNew) = 2
  /\ Len(DiffOut) = 2

\* C5: a run with nothing left pending has invoked init's callback exactly
\* once, and no run invokes it more than once.
C5_CallbackExactlyOnce ==
  \A r \in Runs :
    /\ calls[r] <= 1
    /\ pc[r] \in {"complete", "halted"} => calls[r] = 1

\* C6: a run in which a resource retrieval failed has written no resource,
\* and the database is as it was when the run started.
C6_FailedFetchWritesNothing ==
  \A r \in Runs :
    (failedAt[r] = "fetchResources" /\ LastRun(r)) =>
      /\ wrote[r] = {}
      /\ dbJs = dbAtStart[r].js
      /\ dbManifest = dbAtStart[r].manifest

\* Every resource of run r's commit is in table js as committed.
CommitVisible(r) ==
  \A k \in 1..Len(resources[r]) :
    dbJs[RunResources(r)[k].path] = Some(Row(RunResources(r)[k]))

\* C7: in every state of the database, the stored manifest is the new one
\* only if every resource of the commit is stored, and a resource of the
\* commit is stored only if the stored manifest is the new one.
C7_CommitAtomic ==
  \A r \in Runs :
    (LastRun(r) /\ Entered(r, "saveResources")) =>
      /\ StoredCurrent = JSON_parse(responseText[r]) => CommitVisible(r)
      /\ wrote[r] # {} => StoredCurrent = JSON_parse(responseText[r])

\* C8: a run that follows a completed run and fetches the same manifest
\* computes an empty diff, requests no resource and leaves the database as
\* the first run left it.
C8_SecondRunIsNoOp ==
  \A r \in Runs :
    (/\ r + 1 \in Runs
     /\ pc[r] = "complete"
     /\ Entered(r + 1, "calcNewResource")
     /\ responseText[r + 1] = responseText[r]) =>
      /\ resources[r + 1] = <<>>
      /\ requests[r + 1] = <<>>
      /\ dbJs = dbAtStart[r + 1].js
      /\ dbManifest = dbAtStart[r + 1].manifest

\* C9: once a stage of a run has failed, the run enters no further stage,
\* requests no resource, and queues, executes and commits no store write.
C9_FailFast ==
  [][\A r \in Runs :
       failedAt[r] # "none" =>
         /\ trace'[r] = trace[r]
         /\ requests'[r] = requests[r]
         /\ txQueue'[r] = txQueue[r]
         /\ txJs'[r] = txJs[r]
         /\ wrote'[r] = wrote[r]]_vars

\* C10: a run whose manifest fetch, manifest decoding or local manifest load
\* failed has reported the failure through init's callback.
C10_ManifestFailureReported ==
  \A r \in Runs :
    failedAt[r] \in {"fetchNewManifest", "loadCurrentManifest"} => calls[r] = 1

\* The position of the first entry `step` in run r's trace, 0 if none.
FirstEntry(r, step) ==
  IF Entered(r, step)
  THEN CHOOSE k \in 1..Len(trace[r]) :
         trace[r][k] = step /\ \A j \in 1..(k - 1) : trace[r][j] # step
  ELSE 0

C12_EmptyDiffCommitsManifest ==
  \A r \in Runs :
    (Entered(r, "calcNewResource") /\ failedAt[r] # "calcNewResource"
       /\ resources[r] = <<>>) =>
      /\ requests[r] = <<>>
      /\ Entered(r, "saveResources")
      /\ (pc[r] = "complete" /\ LastRun(r)) =>
           StoredCurrent = JSON_parse(responseText[r])

\* The entry a reference of run r denotes, as JSON.parse produced it.
Decoded(ref) == Deref(JSON_parse(responseText[ref.obj])[1], ref)

\* C13: when every retrieval of a run has succeeded, the array handed to
\* _saveResources has one entry per answer, in the order of the requests,
\* each the input entry with content set to the body answered for its path.
C13_FetchedInOrder ==
  \A r \in Runs :
    (Entered(r, "saveResources") /\ failedAt[r] # "fetchResources") =>
      /\ Len(received[r]) = Len(resources[r])
      /\ \A k \in 1..Len(resources[r]) :
           /\ RunResources(r)[k].path = received[r][k].path
           /\ RunResources(r)[k].content = received[r][k].body
           /\ RunResources(r)[k] =
                [Decoded(resources[r][k]) EXCEPT !.content = received[r][k].body]

\* A run has fetched two resources with different bodies and handed them on.
C13_Witness ==
  \E r \in Runs :
    /\ Entered(r, "saveResources")
    /\ failedAt[r] = "none"
    /\ Len(resources[r]) = 2
    /\ received[r][1].body # received[r][2].body

\* The entries of manifest object o, in the array run references use.
HeapResources(o) == heap[o][1].js.resources

\* C14: an entry of a manifest has content only if a run has received the
\* answer to its request for that entry, and when a run has called init's
\* callback every entry it set content on is in table js under its path.
C14_ContentFetchedAndStored ==
  /\ \A o \in Runs :
       heap[o] # None =>
         \A i \in 1..Len(HeapResources(o)) :
           HeapResources(o)[i].content # Undefined =>
             \E r \in Runs : \E k \in 1..index[r] :
               /\ resources[r][k] = [obj |-> o, arr |-> "resources", idx |-> i]
               /\ received[r][k].body = HeapResources(o)[i].content
  /\ \A r \in Runs :
       (calls[r] > 0 /\ LastRun(r)) =>
         /\ index[r] = Len(resources[r])
         /\ CommitVisible(r)

\* A run that set content on two entries has called init's callback.
C14_Witness ==
  \E r \in Runs :
    /\ calls[r] = 1
    /\ index[r] = 2
    /\ RunResources(r)[1].content # Undefined
    /\ RunResources(r)[2].content # Undefined

\* C15: when a run has committed, every committed resource whose path was
\* stored before the run has as its one row exactly the md5, time and
\* content of the committed descriptor, and the rows of the paths the run
\* did not commit are as they were.
C15_UpsertReplaces ==
  \A r \in Runs :
    (pc[r] = "complete" /\ LastRun(r)) =>
      /\ \A k \in 1..Len(resources[r]) :
           LET d == RunResources(r)[k]
           IN dbAtStart[r].js[d.path] # None =>
                dbJs[d.path] = Some([md5 |-> d.md5, time |-> d.time,
                                     content |-> d.content])
      /\ \A p \in Paths :
           (\A k \in 1..Len(resources[r]) : RunResources(r)[k].path # p) =>
             dbJs[p] = dbAtStart[r].js[p]

\* A run has committed a.js over a stored row that differed in md5, time
\* and content.
C15_Witness ==
  \E r \in Runs :
    /\ pc[r] = "complete"
    /\ LastRun(r)
    /\ dbAtStart[r].js["a.js"] # None
    /\ dbJs["a.js"] # None
    /\ dbAtStart[r].js["a.js"][1].md5 # dbJs["a.js"][1].md5
    /\ dbAtStart[r].js["a.js"][1].time # dbJs["a.js"][1].time
    /\ dbAtStart[r].js["a.js"][1].content # dbJs["a.js"][1].content

\* The entries of the manifest run r fetched, as references.
AllOf(r) ==
  [k \in 1..Len(HeapResources(r)) |-> [obj |-> r, arr |-> "resources", idx |-> k]]

C17_ManifestNotModified ==
  newManifest # None =>
    heap[newManifest[1]] = JSON_parse(responseText[newManifest[1]])

\* C18: with overlapping calls of init every run diffs, fetches and commits
\* the entries of the manifest its own request fetched.
C18_RunsDoNotInterfere ==
  \A r \in Runs :
    /\ \A k \in 1..Len(resources[r]) : resources[r][k].obj = r
    /\ (Entered(r, "calcNewResource") /\ failedAt[r] # "calcNewResource") =>
         resources[r] = AllOf(r)

\* C19: a run has at most one resource request without its answer; the
\* request for the resource at index i + 1 is sent only when the answer for
\* index i has been received, and _saveResources is entered only when every
\* answer has been received.
C19_OneRequestInFlight ==
  \A r \in Runs :
    /\ Len(received[r]) = index[r]
    /\ Len(requests[r]) - Len(received[r]) \in {0, 1}
    /\ \A k \in 1..Len(requests[r]) : requests[r][k] = RunResources(r)[k].path
    /\ pc[r] = "fetchResources" => Len(requests[r]) = index[r] + 1
    /\ Entered(r, "saveResources") =>
         /\ Len(received[r]) = Len(resources[r])
         /\ Len(requests[r]) = Len(resources[r])

\* The second request of a run is in flight after the first answer.
C19_Witness ==
  \E r \in Runs :
    /\ pc[r] = "fetchResources"
    /\ index[r] = 1
    /\ Len(received[r]) = 1
    /\ Len(requests[r]) = 2

====
